---- MODULE Spec2Model ----
(***************************************************************************)
(* A model of src/network/tcp.c: __net_Connect (with the SOCKS handshake   *)
(* it runs on the connected socket) and __net_Accept.                      *)
(*                                                                         *)
(* One behaviour is one call of one entry point: Init picks the entry      *)
(* point and the arguments, the actions are the steps of the call between  *)
(* two external calls (resolver, socket, connect, poll, accept, read,      *)
(* write).  __net_Accept is called again and again on the same listen set, *)
(* which is the caller's array and persists across the calls.              *)
(* SocksHandshakeTCP is also taken on its own, called on a connected       *)
(* socket with each value its version parameter distinguishes: its SOCKS4  *)
(* branch is not entered from __net_Connect, which passes the version 5.   *)
(***************************************************************************)
EXTENDS Integers, Sequences, FiniteSets, TLC

(* ------------------------------ bounds --------------------------------- *)
MaxCand == 3        \* candidates a resolution returns at most
MaxSlices == 2      \* the largest ipv4-timeout is MaxSlices * 100 + 30 ms
MaxListen == 3      \* listening sockets in the listen set at most
MaxCalls == 3       \* __net_Accept calls on one listen set at most
MaxWaits == 2       \* readiness waits followed within one __net_Accept call

(* ------------------------ platform constants --------------------------- *)
SOCK_STREAM == 1
SOCK_DGRAM == 2
IPPROTO_TCP == 6
IPPROTO_UDP == 17
DefaultSocksPort == 1080
HistoricalPort == 80
PollSlice == 100
SocksVersionPassed == 5
SizeofInt == 4
ByteRange == 256
MaxFieldLen == 255
AF_INET == 2
Socks4Granted == 90

(* A C string is the sequence of its bytes; the null pointer is NULL.      *)
NULL == <<-1>>
Colon == 58
TargetHost == <<116, 103>>                 \* "tg"
SocksPlain == <<112, 120>>                 \* "px"
SocksWithPort == <<112, 120, 58, 57>>      \* "px:9"
UserName == <<117>>                        \* "u"
Password == <<119, 120>>                   \* "wx"

VARIABLES
  pc,          \* position of the running call
  i_port,      \* __net_Connect: the port argument (remapped at entry)
  type,        \* __net_Connect: socket type argument
  proto,       \* __net_Connect: protocol argument
  psz_socks,   \* the "socks" configuration string (NULL: no proxy)
  psz_realhost,\* host handed to the resolver
  i_realport,  \* port handed to the resolver
  res,         \* number of candidates of the resolved list (0: none yet)
  resFreed,    \* number of vlc_freeaddrinfo(res) calls
  ptr,         \* index of the current candidate (res + 1: ptr == NULL)
  fd,          \* socket of the current candidate, -1 when none
  i_handle,    \* the connected socket, -1 when none
  d,           \* div_t: remaining poll budget of the current candidate
  b_die,       \* p_this->b_die
  ret,         \* value returned by the call (-2: not returned yet)
  open,        \* sockets created by the call and not closed
  nCreated,    \* sockets created by the call
  nClosed,     \* net_Close calls made by the call
  attempts,    \* per attempt, in order: the candidate's index in the list,
               \* its socket (-1: none) and what became of it
  resolveCalls,\* arguments of the vlc_getaddrinfo calls made, in order
  polls,       \* timeouts handed to poll for the current candidate
  ipv4_timeout,\* "ipv4-timeout" as read at line 167 for that candidate
  socks_version, \* the proxy protocol version the configuration holds when
               \* the handshake is called (0: not looked at)
  psz_user,    \* "socks-user" as read at line 242
  psz_pwd,     \* "socks-pwd" as read at line 243
  i_socks_version, \* SocksHandshakeTCP: the version argument
  b_auth,      \* SocksNegociate: b_auth
  buffer,      \* the bytes the last net_Read delivered
  wire,        \* the frames handed to net_Write, in order
  reads,       \* the lengths asked of net_Read, in order
  hs_ret,      \* value SocksHandshakeTCP returned ("none": not returned)
  negCalls,    \* arguments of the SocksHandshakeTCP calls made, in order
  p_res,       \* SOCKS4: the address of the resolved target (<<>>: none)
  p_resFreed,  \* SOCKS4: number of vlc_freeaddrinfo(p_res) calls
  hostResolves,\* SOCKS4: the vlc_getaddrinfo calls made, in order
  pi_fd,       \* __net_Accept: the caller's listen set (without its -1 end)
  littleEndian,\* byte order of the build
  timeout,     \* __net_Accept: timeout
  locked,      \* the object lock is held
  lockErr,     \* the lock was taken while held or released while free
  sig,         \* the cancellation descriptor evfd is readable
  ufd,         \* revents of ufd[0..n], as poll left them
  scan,        \* index i of the scanning loop
  a_errno,     \* errno as the call leaves it
  calls,       \* __net_Accept calls started on the listen set
  waits,       \* readiness waits of the running call
  accTried,    \* listening sockets accept() was called on, in order, in
               \* the scanning pass that follows the last wait
  lastNone,    \* whether no listener was readable when the last wait ended
  lastSig,     \* whether evfd was readable when the last wait ended
  lastWait,    \* how the last wait ended: "ready", "timeout" or "error"
  pi_entry,    \* the listen set when the running call was entered
  pi_first,    \* the listen set before the first call
  svcIdx,      \* index the running call serviced (0: none)
  svc,         \* the listening socket each call serviced, for as long as
               \* readiness was sustained
  sustained    \* every wait so far found all listeners ready, every
               \* accept() succeeded, and no cancellation was raised

cvars == <<i_port, type, proto, psz_socks, psz_realhost, i_realport, res,
           resFreed, ptr, fd, i_handle, d, open, nCreated, nClosed, attempts,
           resolveCalls, polls, ipv4_timeout>>

h4vars == <<p_res, p_resFreed, hostResolves>>

hvars == <<socks_version, psz_user, psz_pwd, i_socks_version, b_auth, buffer,
           wire, reads, hs_ret, negCalls, h4vars>>

avars == <<pi_fd, littleEndian, timeout, locked, lockErr, sig, ufd, scan,
           a_errno, calls, waits, accTried, lastNone, lastSig, lastWait, pi_entry,
           pi_first, svcIdx, svc, sustained>>

vars == <<pc, b_die, ret, cvars, hvars, avars>>

(* ----------------------------- C helpers ------------------------------- *)
Min(a, b) == IF a < b THEN a ELSE b

\* strchr(s, c): index of the first byte equal to c, 0 when there is none
strchr(s, c) ==
  IF \E k \in 1..Len(s) : s[k] = c
    THEN CHOOSE k \in 1..Len(s) : s[k] = c /\ \A j \in 1..(k-1) : s[j] # c
    ELSE 0

RECURSIVE atoiFrom(_, _, _)
atoiFrom(s, k, acc) ==
  IF k > Len(s) \/ s[k] < 48 \/ s[k] > 57 THEN acc
  ELSE atoiFrom(s, k + 1, acc * 10 + (s[k] - 48))

\* atoi(s) for the unsigned decimal strings the configuration holds
atoi(s) == atoiFrom(s, 1, 0)

\* the protocol versions a proxy configuration may name
ConfigVersions == {4, 5}

(* ------------------------- __net_Connect: entry ------------------------ *)
\* line 79-80: port 0 is remapped
RemapPort(p) == IF p = 0 THEN HistoricalPort ELSE p

\* lines 88-94: the proxy string is cut at its first colon
SocksHost(s) == IF strchr(s, Colon) = 0 THEN s ELSE SubSeq(s, 1, strchr(s, Colon) - 1)
SocksPort(s) ==
  IF strchr(s, Colon) = 0 THEN DefaultSocksPort
  ELSE atoi(SubSeq(s, strchr(s, Colon) + 1, Len(s)))

\* lines 102-112 and 113-123: what the two switches accept
SocksTypeAccepted(t) == t = 0 \/ t = SOCK_STREAM
\* (variant: a second switch that lets every protocol through)
SocksProtoAcceptedAny(p) == TRUE
SocksProtoAccepted(p) == p = 0 \/ p = IPPROTO_TCP

ConnectEntry ==
  /\ pc = "c_entry"
  /\ UNCHANGED <<hvars, avars>>
  /\ i_port' = RemapPort(i_port)
  /\ IF psz_socks # NULL
       THEN /\ psz_realhost' = SocksHost(psz_socks)
            /\ i_realport' = SocksPort(psz_socks)
            /\ IF ~SocksTypeAccepted(type)
                 THEN /\ pc' = "c_ret" /\ ret' = -1
                      /\ UNCHANGED <<type, proto>>
                 ELSE /\ type' = SOCK_STREAM
                      /\ IF ~SocksProtoAccepted(proto)
                           THEN /\ pc' = "c_ret" /\ ret' = -1
                                /\ UNCHANGED proto
                           ELSE /\ proto' = IPPROTO_TCP
                                /\ pc' = "c_resolve"
                                /\ UNCHANGED ret
       ELSE /\ psz_realhost' = TargetHost
            /\ i_realport' = RemapPort(i_port)
            /\ pc' = "c_resolve"
            /\ UNCHANGED <<type, proto, ret>>
  /\ UNCHANGED <<psz_socks, res, resFreed, ptr, fd, i_handle, d, b_die, open,
                 nCreated, nClosed, attempts, resolveCalls, polls,
                 ipv4_timeout>>

\* no __net_Connect call is running or has run
ConnectIdle ==
  /\ psz_realhost = NULL
  /\ i_realport = 0
  /\ res = 0
  /\ resFreed = 0
  /\ ptr = 0
  /\ fd = -1
  /\ i_handle = -1
  /\ d = [quot |-> 0, rem |-> 0]
  /\ open = {}
  /\ nCreated = 0
  /\ nClosed = 0
  /\ attempts = <<>>
  /\ resolveCalls = <<>>
  /\ polls = <<>>
  /\ ipv4_timeout = 0
  /\ socks_version = 0
  /\ psz_user = NULL
  /\ psz_pwd = NULL
  /\ i_socks_version = 0
  /\ b_auth = FALSE
  /\ buffer = <<>>
  /\ wire = <<>>
  /\ reads = <<>>
  /\ hs_ret = "none"
  /\ negCalls = <<>>
  /\ p_res = <<>>
  /\ p_resFreed = 0
  /\ hostResolves = <<>>

\* no __net_Accept call is running or has run
AcceptIdle ==
  /\ timeout = 0
  /\ locked = FALSE
  /\ lockErr = FALSE
  /\ sig = FALSE
  /\ ufd = <<>>
  /\ scan = 0
  /\ a_errno = "none"
  /\ calls = 0
  /\ waits = 0
  /\ accTried = <<>>
  /\ lastNone = FALSE
  /\ lastSig = FALSE
  /\ lastWait = "none"
  /\ pi_entry = <<>>
  /\ svcIdx = 0
  /\ svc = <<>>
  /\ sustained = TRUE

\* the listening sockets of a listen set are descriptors base+1, base+2, ...
ListenBases == {2, 254}

\* a call of __net_Connect with its arguments and the "socks" configuration
InitConnect ==
  /\ pc = "c_entry"
  /\ i_port \in {0, 8080}
  /\ type \in {0, SOCK_STREAM, SOCK_DGRAM}
  /\ proto \in {0, IPPROTO_TCP, IPPROTO_UDP}
  /\ psz_socks \in {NULL, SocksPlain, SocksWithPort}
  /\ ConnectIdle
  /\ AcceptIdle
  /\ pi_fd = <<>>
  /\ pi_first = <<>>
  /\ littleEndian = TRUE
  /\ b_die = FALSE
  /\ ret = -2

\* a listen set of 1..MaxListen sockets on which __net_Accept will be called
InitAccept ==
  /\ pc = "a_idle"
  /\ \E n \in 1..MaxListen, base \in ListenBases :
       /\ pi_fd = [k \in 1..n |-> base + k]
       /\ pi_first = [k \in 1..n |-> base + k]
  /\ littleEndian \in BOOLEAN
  /\ AcceptIdle
  /\ i_port = 0
  /\ type = 0
  /\ proto = 0
  /\ psz_socks = NULL
  /\ ConnectIdle
  /\ b_die = FALSE
  /\ ret = -2

\* the versions SocksHandshakeTCP may be called with
HandshakeVersions == {0, 4, 5}

\* a call of SocksHandshakeTCP on the connected socket 3, for each version
\* its parameter may hold
InitHandshake ==
  /\ pc = "hs_entry"
  /\ i_port \in {HistoricalPort, 8080}
  /\ i_socks_version \in HandshakeVersions
  /\ socks_version = i_socks_version
  /\ psz_user \in {NULL, UserName}
  /\ psz_pwd \in {NULL, Password}
  /\ negCalls = <<[fd |-> 3, version |-> i_socks_version, user |-> psz_user,
                   pwd |-> psz_pwd, host |-> TargetHost, port |-> i_port]>>
  /\ type = SOCK_STREAM
  /\ proto = IPPROTO_TCP
  /\ psz_socks = SocksPlain
  /\ psz_realhost = SocksPlain
  /\ i_realport = DefaultSocksPort
  /\ res = 1
  /\ resFreed = 1
  /\ ptr = 1
  /\ fd = 3
  /\ i_handle = 3
  /\ d = [quot |-> 0, rem |-> 0]
  /\ open = {3}
  /\ nCreated = 1
  /\ nClosed = 0
  /\ attempts = <<[cand |-> 1, fd |-> 3, outcome |-> "ok"]>>
  /\ resolveCalls = <<[host |-> SocksPlain, port |-> DefaultSocksPort]>>
  /\ polls = <<>>
  /\ ipv4_timeout = 0
  /\ b_auth = FALSE
  /\ buffer = <<>>
  /\ wire = <<>>
  /\ reads = <<>>
  /\ hs_ret = "none"
  /\ p_res = <<>>
  /\ p_resFreed = 0
  /\ hostResolves = <<>>
  /\ AcceptIdle
  /\ pi_fd = <<>>
  /\ pi_first = <<>>
  /\ littleEndian = TRUE
  /\ b_die = FALSE
  /\ ret = -2

Init == InitConnect \/ InitAccept \/ InitHandshake

(* ------------------- __net_Connect: the candidate loop ------------------ *)
\* the values "ipv4-timeout" is read as (line 169)
Timeouts == {-1, 0, 30, PollSlice * MaxSlices, PollSlice * MaxSlices + 30}

\* lines 170-175: a negative timeout counts as 0, then div(timeout, 100)
TimeoutBudget(t) ==
  LET c == IF t < 0 THEN 0 ELSE t
  IN  [quot |-> c \div PollSlice, rem |-> c % PollSlice]

\* (variant: every wait is a full slice)
PollTimeoutFullSlice(b) == PollSlice

\* line 195: the timeout handed to poll
PollTimeout(b) == IF b.quot > 0 THEN PollSlice ELSE b.rem

\* line 134-142: vlc_getaddrinfo on the effective host and port
Resolve ==
  /\ pc = "c_resolve"
  /\ UNCHANGED <<hvars, avars>>
  /\ resolveCalls' = Append(resolveCalls, [host |-> psz_realhost, port |-> i_realport])
  /\ \/ /\ pc' = "c_ret" /\ ret' = -1                   \* i_val != 0
        /\ UNCHANGED <<res, ptr>>
     \/ /\ res' \in 1..MaxCand
        /\ ptr' = 1
        /\ pc' = "c_loop"
        /\ UNCHANGED ret
  /\ UNCHANGED <<i_port, type, proto, psz_socks, psz_realhost, i_realport,
                 resFreed, fd, i_handle, d, b_die, open, nCreated, nClosed,
                 attempts, polls, ipv4_timeout>>

\* the record of the attempt on the current candidate
Attempt(outcome) == [cand |-> ptr, fd |-> fd, outcome |-> outcome]

\* (variant: next_ai without its net_Close)
NextAiNoClose(outcome) ==
  /\ d' = [quot |-> 0, rem |-> 0]
  /\ attempts' = Append(attempts, Attempt(outcome))
  /\ ptr' = ptr + 1
  /\ fd' = -1
  /\ pc' = "c_loop"
  /\ UNCHANGED <<open, nClosed>>

\* lines 229-231, label next_ai: close the candidate's socket, next candidate
\* (d and timeout are locals of the block that is left)
NextAi(outcome) ==
  /\ d' = [quot |-> 0, rem |-> 0]
  /\ open' = open \ {fd}
  /\ nClosed' = nClosed + 1
  /\ attempts' = Append(attempts, Attempt(outcome))
  /\ ptr' = ptr + 1
  /\ fd' = -1
  /\ pc' = "c_loop"

\* (variant: success without the break, the loop goes on)
SuccessNoBreak ==
  /\ d' = [quot |-> 0, rem |-> 0]
  /\ polls' = <<>>
  /\ ipv4_timeout' = 0
  /\ i_handle' = fd
  /\ attempts' = Append(attempts, Attempt("ok"))
  /\ pc' = IF ptr < res THEN "c_loop" ELSE "c_after"
  /\ ptr' = ptr + 1

\* lines 225-227: success, leave the loop with the socket
Success ==
  /\ UNCHANGED ptr
  /\ d' = [quot |-> 0, rem |-> 0]
  /\ polls' = <<>>
  /\ ipv4_timeout' = 0
  /\ i_handle' = fd
  /\ attempts' = Append(attempts, Attempt("ok"))
  /\ pc' = "c_after"

\* (variant: a failed net_Socket that leaves through next_ai)
SocketFailedClose ==
  /\ attempts' = Append(attempts, Attempt("nosock"))
  /\ ptr' = ptr + 1
  /\ nClosed' = nClosed + 1

\* lines 148-152: net_Socket failed, the candidate is skipped
SocketFailed ==
  /\ attempts' = Append(attempts, Attempt("nosock"))
  /\ ptr' = ptr + 1
  /\ UNCHANGED nClosed

\* lines 144-152: the loop head and net_Socket for the current candidate
LoopSocket ==
  /\ pc = "c_loop"
  /\ UNCHANGED <<hvars, avars>>
  /\ ptr <= res
  /\ polls' = <<>>
  /\ ipv4_timeout' = 0
  /\ \/ /\ SocketFailed                                  \* fd == -1
        /\ UNCHANGED <<pc, fd, open, nCreated>>
     \/ /\ fd' = nCreated + 3
        /\ nCreated' = nCreated + 1
        /\ open' = open \cup {nCreated + 3}
        /\ pc' = "c_connect"
        /\ UNCHANGED <<attempts, ptr, nClosed>>
  /\ UNCHANGED <<i_port, type, proto, psz_socks, psz_realhost, i_realport, res,
                 resFreed, i_handle, d, b_die, ret, resolveCalls>>

\* line 144, ptr == NULL: every candidate was tried
LoopEnd ==
  /\ pc = "c_loop"
  /\ ptr > res
  /\ pc' = "c_after"
  /\ polls' = <<>>
  /\ ipv4_timeout' = 0
  /\ UNCHANGED <<b_die, ret, i_port, type, proto, psz_socks, psz_realhost,
                 i_realport, res, resFreed, ptr, fd, i_handle, d, open,
                 nCreated, nClosed, attempts, resolveCalls, hvars, avars>>

\* lines 154-175: connect, and on EINPROGRESS the budget of the poll loop
Connect ==
  /\ pc = "c_connect"
  /\ UNCHANGED <<hvars, avars>>
  /\ \/ /\ Success                                        \* connect() == 0
        /\ UNCHANGED <<fd, open, nClosed>>
     \/ /\ NextAi("connfail")                             \* errno != EINPROGRESS
        /\ UNCHANGED <<i_handle, polls, ipv4_timeout>>
     \/ /\ \E t \in Timeouts :                            \* EINPROGRESS
             ipv4_timeout' = t /\ d' = TimeoutBudget(t)
        /\ polls' = <<>>
        /\ pc' = "c_poll"
        /\ UNCHANGED <<ptr, fd, i_handle, open, nClosed, attempts>>
  /\ UNCHANGED <<i_port, type, proto, psz_socks, psz_realhost, i_realport, res,
                 resFreed, b_die, ret, nCreated, resolveCalls>>

\* (variant: the poll loop without the check of b_die)
PollCheckDieBlind ==
  /\ pc = "c_poll"
  /\ pc' = "c_wait"
  /\ UNCHANGED <<hvars, avars, cvars, b_die, ret>>

\* (variant: the abort returns without vlc_freeaddrinfo)
PollCheckDieKeepsList ==
  /\ pc = "c_poll"
  /\ UNCHANGED <<hvars, avars>>
  /\ IF b_die
       THEN /\ open' = open \ {fd}
            /\ nClosed' = nClosed + 1
            /\ attempts' = Append(attempts, Attempt("aborted"))
            /\ fd' = -1
            /\ ret' = -1
            /\ pc' = "c_ret"
       ELSE /\ pc' = "c_wait"
            /\ UNCHANGED <<open, nClosed, attempts, fd, ret>>
  /\ UNCHANGED <<i_port, type, proto, psz_socks, psz_realhost, i_realport, res,
                 ptr, i_handle, d, b_die, nCreated, resolveCalls, polls,
                 ipv4_timeout, resFreed>>

\* lines 182-188: the liveness check at the head of each poll iteration
PollCheckDie ==
  /\ pc = "c_poll"
  /\ UNCHANGED <<hvars, avars>>
  /\ IF b_die
       THEN /\ open' = open \ {fd}
            /\ nClosed' = nClosed + 1
            /\ resFreed' = resFreed + 1
            /\ attempts' = Append(attempts, Attempt("aborted"))
            /\ fd' = -1
            /\ ret' = -1
            /\ pc' = "c_ret"
       ELSE /\ pc' = "c_wait"
            /\ UNCHANGED <<open, nClosed, resFreed, attempts, fd, ret>>
  /\ UNCHANGED <<i_port, type, proto, psz_socks, psz_realhost, i_realport, res,
                 ptr, i_handle, d, b_die, nCreated, resolveCalls, polls,
                 ipv4_timeout>>

\* lines 195-211: one readiness wait and what follows it
PollWait ==
  /\ pc = "c_wait"
  /\ UNCHANGED <<hvars, avars>>
  /\ polls' = Append(polls, PollTimeout(d))
  /\ UNCHANGED ipv4_timeout
  /\ \E i_ret \in {"1", "0", "EINTR", "error"} :
       IF i_ret = "1"
         THEN /\ pc' = "c_sockopt"
              /\ UNCHANGED <<ptr, fd, d, open, nClosed, attempts>>
       ELSE IF i_ret = "error"
         THEN NextAi("pollerr")
       ELSE IF d.quot <= 0
         THEN NextAi("timeout")
       ELSE /\ d' = [d EXCEPT !.quot = d.quot - 1]
            /\ pc' = "c_poll"
            /\ UNCHANGED <<ptr, fd, open, nClosed, attempts>>
  /\ UNCHANGED <<i_port, type, proto, psz_socks, psz_realhost, i_realport, res,
                 resFreed, i_handle, b_die, ret, nCreated, resolveCalls>>

\* lines 214-222: the pending error of the socket decides
SockOpt ==
  /\ pc = "c_sockopt"
  /\ UNCHANGED <<hvars, avars>>
  /\ \/ /\ NextAi("soerr")
        /\ UNCHANGED <<i_handle, polls, ipv4_timeout>>
     \/ /\ Success
        /\ UNCHANGED <<fd, open, nClosed>>
  /\ UNCHANGED <<i_port, type, proto, psz_socks, psz_realhost, i_realport, res,
                 resFreed, b_die, ret, nCreated, resolveCalls>>

\* the execution context asks the object to die.  b_die is read at line 182
\* only: a request made earlier in the call is seen there all the same.
Kill ==
  /\ pc \in {"c_poll", "c_wait"}
  /\ ~b_die
  /\ b_die' = TRUE
  /\ UNCHANGED <<pc, ret, cvars, hvars, avars>>

(* -------------- __net_Connect: after the loop (lines 234-257) ----------- *)
\* what var_CreateGetNonEmptyString may deliver for "socks-user"/"socks-pwd"
Users == {NULL, UserName}
Passwords == {NULL, Password}

\* line 245: the version __net_Connect hands to SocksHandshakeTCP
HandshakeVersion(configured) == SocksVersionPassed

\* lines 234-246.  psz_socks was freed at line 135 and is never reset: the
\* test of line 239 reads the pointer's old value, NULL exactly when no
\* proxy was configured.
AfterLoop ==
  /\ pc = "c_after"
  /\ resFreed' = resFreed + 1
  /\ IF i_handle = -1
       THEN /\ ret' = -1
            /\ pc' = "c_ret"
            /\ UNCHANGED <<psz_user, psz_pwd, i_socks_version, negCalls,
                           socks_version>>
     ELSE IF psz_socks # NULL
       THEN /\ socks_version' \in ConfigVersions
            /\ psz_user' \in Users
            /\ psz_pwd' \in Passwords
            /\ i_socks_version' = HandshakeVersion(socks_version')
            /\ negCalls' = Append(negCalls,
                 [fd |-> i_handle, version |-> HandshakeVersion(socks_version'),
                  user |-> psz_user', pwd |-> psz_pwd',
                  host |-> TargetHost, port |-> i_port])
            /\ pc' = "hs_entry"
            /\ UNCHANGED ret
     ELSE /\ ret' = i_handle
          /\ pc' = "c_ret"
          /\ UNCHANGED <<psz_user, psz_pwd, i_socks_version, negCalls,
                         socks_version>>
  /\ UNCHANGED <<i_port, type, proto, psz_socks, psz_realhost, i_realport, res,
                 ptr, fd, i_handle, d, b_die, open, nCreated, nClosed, attempts,
                 resolveCalls, polls, ipv4_timeout, h4vars, b_auth, buffer, wire,
                 reads, hs_ret, avars>>

\* lines 247-257: the handshake's result decides what the call returns
HandshakeReturn ==
  /\ pc = "hs_return"
  /\ IF hs_ret # "VLC_SUCCESS"
       THEN /\ open' = open \ {i_handle}
            /\ nClosed' = nClosed + 1
            /\ i_handle' = -1
            /\ ret' = -1
       ELSE /\ ret' = i_handle
            /\ UNCHANGED <<open, nClosed, i_handle>>
  /\ pc' = "c_ret"
  /\ UNCHANGED <<i_port, type, proto, psz_socks, psz_realhost, i_realport, res,
                 resFreed, ptr, fd, d, b_die, nCreated, attempts, resolveCalls,
                 polls, ipv4_timeout, hvars, avars>>

(* --------------------------- SocksNegociate ---------------------------- *)
\* the argument of the running SocksHandshakeTCP call
HsArgs == negCalls[Len(negCalls)]

\* lines 358-359
BAuth(user, pwd) == user = NULL /\ pwd = NULL

\* lines 361-374: the method-offer frame
MethodOffer(v, auth) == IF auth THEN <<v, 2, 0, 2>> ELSE <<v, 1, 0>>

\* the method and status bytes a server may answer with
Methods == {0, 2, 255}
Statuses == {0, 1}

\* strlen(s): of a null pointer it is undefined: the process may fault (-1)
\* or a length may be read off whatever lies at address 0
Strlen(s) == IF s = NULL THEN {-1, 0, 1} ELSE {Len(s)}

\* memcpy(dst, s, n): the n bytes copied
Bytes(s, n) == IF s = NULL THEN [k \in 1..n |-> 0] ELSE SubSeq(s, 1, n)

\* lines 389-400: the user/password frame
AuthFrame(v, user, len1, pwd, len2) ==
  <<v, len1>> \o Bytes(user, len1) \o <<len2>> \o Bytes(pwd, len2)

\* SetWBE: a 16-bit value, high byte first
SetWBE(x) == <<(x \div ByteRange) % ByteRange, x % ByteRange>>

\* (variant: a failure is noted and the handshake goes on to the request)
HsFailGoesOn ==
  /\ hs_ret' = "VLC_EGENERIC"
  /\ pc' = "h5_request"

\* a return of VLC_EGENERIC out of SocksNegociate or SocksHandshakeTCP
HsFail ==
  /\ hs_ret' = "VLC_EGENERIC"
  /\ pc' = "hs_return"

\* lines 441-452: the version check at the head of SocksHandshakeTCP
CoerceVersion(v) == IF v # 4 /\ v # 5 THEN 5 ELSE v

HandshakeEntry ==
  /\ pc = "hs_entry"
  /\ i_socks_version' = CoerceVersion(i_socks_version)
  /\ pc' = IF CoerceVersion(i_socks_version) = 5 THEN "n_offer" ELSE "h4_resolve"
  /\ UNCHANGED <<avars, b_die, ret, cvars, h4vars, socks_version, psz_user, psz_pwd, b_auth,
                 buffer, wire, reads, hs_ret, negCalls>>

\* lines 356-377: the method offer is built and written
NegOffer ==
  /\ pc = "n_offer"
  /\ b_auth' = BAuth(HsArgs.user, HsArgs.pwd)
  /\ wire' = Append(wire, MethodOffer(i_socks_version, b_auth'))
  /\ \/ /\ pc' = "n_method"                   \* net_Write wrote i_len bytes
        /\ UNCHANGED hs_ret
     \/ HsFail                                \* short write
  /\ UNCHANGED <<avars, b_die, ret, cvars, h4vars, socks_version, psz_user, psz_pwd,
                 i_socks_version, buffer, reads, negCalls>>

\* lines 378-387 and 415-423: the server's method selection
NegMethod ==
  /\ pc = "n_method"
  /\ reads' = Append(reads, 2)
  /\ \/ /\ HsFail                             \* short read
        /\ UNCHANGED buffer
     \/ \E m \in Methods :
          /\ buffer' = <<i_socks_version, m>>
          /\ IF m = 0
               THEN pc' = "h5_request" /\ UNCHANGED hs_ret
             ELSE IF m = 2
               THEN pc' = "n_auth" /\ UNCHANGED hs_ret
             ELSE HsFail
  /\ UNCHANGED <<avars, b_die, ret, cvars, h4vars, socks_version, psz_user, psz_pwd,
                 i_socks_version, b_auth, wire, negCalls>>

\* lines 389-403: the user/password frame is built and written
NegAuth ==
  /\ pc = "n_auth"
  /\ \E len1 \in Strlen(HsArgs.user), len2 \in Strlen(HsArgs.pwd) :
       IF len1 = -1 \/ len2 = -1
         THEN /\ pc' = "crashed"
              /\ UNCHANGED <<wire, hs_ret>>
         ELSE /\ wire' = Append(wire,
                   AuthFrame(i_socks_version, HsArgs.user, Min(len1, MaxFieldLen),
                             HsArgs.pwd, Min(len2, MaxFieldLen)))
              /\ \/ /\ pc' = "n_status"
                    /\ UNCHANGED hs_ret
                 \/ HsFail
  /\ UNCHANGED <<avars, b_die, ret, cvars, h4vars, socks_version, psz_user, psz_pwd,
                 i_socks_version, b_auth, buffer, reads, negCalls>>

\* lines 405-413: the server's verdict on the credentials
NegStatus ==
  /\ pc = "n_status"
  /\ reads' = Append(reads, 2)
  /\ \/ /\ HsFail
        /\ UNCHANGED buffer
     \/ \E st \in Statuses :
          /\ buffer' = <<i_socks_version, st>>
          /\ IF st # 0 THEN HsFail
             ELSE pc' = "h5_request" /\ UNCHANGED hs_ret
  /\ UNCHANGED <<avars, b_die, ret, cvars, h4vars, socks_version, psz_user, psz_pwd,
                 i_socks_version, b_auth, wire, negCalls>>

(* ---------------------- SocksHandshakeTCP, SOCKS5 ---------------------- *)
\* lines 484-496: the CONNECT request
ConnectRequest(v, host, port) ==
  <<v, 1, 0, 3, Min(Len(host), MaxFieldLen)>>
    \o SubSeq(host, 1, Min(Len(host), MaxFieldLen)) \o SetWBE(port)

\* <<reply code, address type, fifth byte>> a server may answer with
Headers == {<<0, 1, 10>>, <<0, 3, 0>>, <<0, 3, 3>>, <<0, 4, 32>>, <<0, 9, 0>>,
            <<1, 1, 10>>}

\* (variant: the address byte already read with the header is not deducted)
RestLenWhole(buf) ==
  IF buf[4] = 1 THEN 4 + 2
  ELSE IF buf[4] = 3 THEN buf[5] + 2
  ELSE IF buf[4] = 4 THEN 16 + 2
  ELSE -1

\* lines 516-523: how many bytes are still to read (-1: unknown type)
RestLen(buf) ==
  IF buf[4] = 1 THEN 4 - 1 + 2
  ELSE IF buf[4] = 3 THEN buf[5] + 2
  ELSE IF buf[4] = 4 THEN 16 - 1 + 2
  ELSE -1

\* lines 484-500
H5Request ==
  /\ pc = "h5_request"
  /\ wire' = Append(wire, ConnectRequest(i_socks_version, HsArgs.host, HsArgs.port))
  /\ \/ /\ pc' = "h5_header"
        /\ UNCHANGED hs_ret
     \/ HsFail
  /\ UNCHANGED <<avars, b_die, ret, cvars, h4vars, socks_version, psz_user, psz_pwd,
                 i_socks_version, b_auth, buffer, reads, negCalls>>

\* lines 502-523
H5Header ==
  /\ pc = "h5_header"
  /\ reads' = Append(reads, 5)
  /\ \/ /\ HsFail
        /\ UNCHANGED buffer
     \/ \E h \in Headers :
          /\ buffer' = <<i_socks_version, h[1], 0, h[2], h[3]>>
          /\ IF h[1] # 0 \/ RestLen(buffer') = -1 THEN HsFail
             ELSE pc' = "h5_rest" /\ UNCHANGED hs_ret
  /\ UNCHANGED <<avars, b_die, ret, cvars, h4vars, socks_version, psz_user, psz_pwd,
                 i_socks_version, b_auth, wire, negCalls>>

\* lines 525-529
H5Rest ==
  /\ pc = "h5_rest"
  /\ reads' = Append(reads, RestLen(buffer))
  /\ \/ HsFail
     \/ /\ hs_ret' = "VLC_SUCCESS"
        /\ pc' = "hs_return"
  /\ UNCHANGED <<avars, b_die, ret, cvars, h4vars, socks_version, psz_user, psz_pwd,
                 i_socks_version, b_auth, buffer, wire, negCalls>>

(* ---------------------- SocksHandshakeTCP, SOCKS4 ---------------------- *)
\* the IPv4 addresses the target may resolve to, as the bytes of sin_addr
Ipv4Addrs == {<<10, 0, 0, 1>>, <<192, 168, 1, 9>>}

\* the result codes a SOCKS4 server may answer with
Socks4Codes == {Socks4Granted, 91}

\* lines 462-469: the SOCKS4 CONNECT request, with an empty user id
Socks4Request(v, port, addr) == <<v, 1>> \o SetWBE(port) \o addr \o <<0>>

\* (variant: a target that did not resolve is sent as address 0.0.0.0)
H4ResolveFailedGoesOn ==
  /\ p_res' = <<0, 0, 0, 0>>
  /\ pc' = "h4_request"
  /\ UNCHANGED hs_ret

\* line 460: vlc_getaddrinfo failed, the handshake returns at once
H4ResolveFailed ==
  /\ HsFail
  /\ UNCHANGED p_res

\* lines 455-460: the target is resolved with hints.ai_family = AF_INET
H4Resolve ==
  /\ pc = "h4_resolve"
  /\ \/ /\ hostResolves' = Append(hostResolves,
             [host |-> HsArgs.host, family |-> AF_INET, ok |-> FALSE])
        /\ H4ResolveFailed
     \/ /\ hostResolves' = Append(hostResolves,
             [host |-> HsArgs.host, family |-> AF_INET, ok |-> TRUE])
        /\ p_res' \in Ipv4Addrs
        /\ pc' = "h4_request"
        /\ UNCHANGED hs_ret
  /\ UNCHANGED <<avars, b_die, ret, cvars, socks_version, psz_user, psz_pwd,
                 i_socks_version, b_auth, buffer, wire, reads, negCalls,
                 p_resFreed>>

\* lines 462-472: the request is built from p_res, p_res is released, the
\* request is written
H4Request ==
  /\ pc = "h4_request"
  /\ p_resFreed' = p_resFreed + 1
  /\ wire' = Append(wire, Socks4Request(i_socks_version, HsArgs.port, p_res))
  /\ \/ /\ pc' = "h4_reply"
        /\ UNCHANGED hs_ret
     \/ HsFail                                \* short write
  /\ UNCHANGED <<avars, b_die, ret, cvars, socks_version, psz_user, psz_pwd,
                 i_socks_version, b_auth, buffer, reads, negCalls, p_res,
                 hostResolves>>

\* lines 473-480 and 529: the server's answer
H4Reply ==
  /\ pc = "h4_reply"
  /\ reads' = Append(reads, 8)
  /\ \/ /\ HsFail                             \* short read
        /\ UNCHANGED buffer
     \/ \E cd \in Socks4Codes :
          /\ buffer' = <<0, cd, 0, 0, 0, 0, 0, 0>>
          /\ IF cd # Socks4Granted THEN HsFail
             ELSE hs_ret' = "VLC_SUCCESS" /\ pc' = "hs_return"
  /\ UNCHANGED <<avars, b_die, ret, cvars, socks_version, psz_user, psz_pwd,
                 i_socks_version, b_auth, wire, negCalls, h4vars>>

(* ----------------------------- __net_Accept ---------------------------- *)
\* the SizeofInt bytes of a two's complement int, in the order they lie in
\* memory (\div rounds down, so this is right for negative x as well)
IntToBytes(x, le) ==
  LET b == [k \in 1..SizeofInt |-> (x \div (ByteRange ^ (k - 1))) % ByteRange]
  IN  IF le THEN b ELSE [k \in 1..SizeofInt |-> b[SizeofInt + 1 - k]]

\* byte k of SizeofInt counts ByteRange^(k-1); the top byte carries the sign
RECURSIVE SumBytes(_, _)
SumBytes(b, k) ==
  IF k > SizeofInt THEN 0
  ELSE (IF k = SizeofInt /\ 2 * b[k] >= ByteRange THEN b[k] - ByteRange ELSE b[k])
         * (ByteRange ^ (k - 1)) + SumBytes(b, k + 1)

\* the int that SizeofInt bytes of memory hold
BytesToInt(m, le) ==
  SumBytes(IF le THEN m ELSE [k \in 1..SizeofInt |-> m[SizeofInt + 1 - k]], 1)

\* an int array as the bytes of its memory, and back
ArrayBytes(a, le) ==
  [k \in 1..(SizeofInt * Len(a)) |->
     IntToBytes(a[((k - 1) \div SizeofInt) + 1], le)[((k - 1) % SizeofInt) + 1]]
BytesArray(m, le) ==
  [j \in 1..(Len(m) \div SizeofInt) |->
     BytesToInt(SubSeq(m, SizeofInt * (j - 1) + 1, SizeofInt * j), le)]

\* memmove(mem + dst, mem + src, len): byte offsets, overlap allowed
Memmove(m, dst, src, len) ==
  [k \in 1..Len(m) |-> IF dst < k /\ k <= dst + len THEN m[k - dst + src] ELSE m[k]]

\* line 327: the third argument of memmove, for the 0-based index i of n
MoveLen(n, i) == n - (i + 1)

\* lines 327-328: the listen set after the socket at 0-based index i was
\* serviced.  pi_fd + i is SizeofInt * i bytes into the array.
RotateListen(a, i, sfd, le) ==
  LET n == Len(a)
      m == Memmove(ArrayBytes(a, le), SizeofInt * i, SizeofInt * (i + 1),
                   MoveLen(n, i))
  IN  [BytesArray(m, le) EXCEPT ![n] = sfd]

\* line 268
AcceptTimeout(i_wait) == IF i_wait < 0 THEN -1 ELSE i_wait \div 1000
Waits == {-1, 2000}

\* line 292: the number of entries of ufd handed to poll
PollNfds(n) == n

\* vlc_object_lock and vlc_object_unlock on p_this
Lock ==
  /\ locked' = TRUE
  /\ lockErr' = (lockErr \/ locked)
Unlock ==
  /\ locked' = FALSE
  /\ lockErr' = (lockErr \/ ~locked)

\* the descriptor a successful accept() delivers
NewConnection == 100 + calls

\* lines 266-274: the caller calls __net_Accept on its listen set
AcceptCall ==
  /\ pc = "a_idle"
  /\ calls < MaxCalls
  /\ calls' = calls + 1
  /\ \E i_wait \in Waits : timeout' = AcceptTimeout(i_wait)
  /\ Lock
  /\ ret' = -2
  /\ a_errno' = "none"
  /\ waits' = 0
  /\ accTried' = <<>>
  /\ lastNone' = FALSE
  /\ lastSig' = FALSE
  /\ lastWait' = "none"
  /\ svcIdx' = 0
  /\ pi_entry' = pi_fd
  /\ pc' = "a_loop"
  /\ UNCHANGED <<b_die, cvars, hvars, pi_fd, littleEndian, sig, ufd, scan,
                 pi_first, svc, sustained>>

\* (variant: the return of a dead object keeps the lock)
AcceptLoopHeadKeepsLock ==
  /\ pc = "a_loop"
  /\ waits < MaxWaits
  /\ IF b_die
       THEN /\ ret' = -1
            /\ pc' = "a_idle"
            /\ UNCHANGED <<ufd, locked, lockErr>>
       ELSE /\ Unlock
            /\ ufd' = [i \in 1..(Len(pi_fd) + 1) |-> FALSE]
            /\ pc' = "a_poll"
            /\ UNCHANGED ret
  /\ accTried' = <<>>
  /\ UNCHANGED <<b_die, cvars, hvars, pi_fd, littleEndian, timeout, sig, scan,
                 a_errno, calls, waits, lastNone, lastSig, lastWait, pi_entry,
                 pi_first, svcIdx, svc, sustained>>

\* lines 276-291 and, when the object is dead, 334-335
AcceptLoopHead ==
  /\ pc = "a_loop"
  /\ waits < MaxWaits
  /\ Unlock
  /\ IF b_die
       THEN /\ ret' = -1
            /\ pc' = "a_idle"
            /\ UNCHANGED ufd
       ELSE /\ ufd' = [i \in 1..(Len(pi_fd) + 1) |-> FALSE]
            /\ pc' = "a_poll"
            /\ UNCHANGED ret
  /\ accTried' = <<>>
  /\ UNCHANGED <<b_die, cvars, hvars, pi_fd, littleEndian, timeout, sig, scan,
                 a_errno, calls, waits, lastNone, lastSig, lastWait, pi_entry,
                 pi_first, svcIdx, svc, sustained>>

\* (variant: a wait that timed out is started again)
AcceptPollRetries ==
  /\ pc = "a_poll"
  /\ waits' = waits + 1
  /\ lastSig' = sig
  /\ \E R \in SUBSET (1..Len(pi_fd)) :
       LET n == Len(pi_fd)
           readable == {i \in 1..PollNfds(n) : IF i <= n THEN i \in R ELSE sig}
       IN  /\ lastNone' = (R = {})
           /\ \/ /\ readable # {}
                 /\ ufd' = [i \in 1..(n + 1) |-> i \in readable]
                 /\ Lock
                 /\ lastWait' = "ready"
                 /\ sustained' = (sustained /\ R = 1..n /\ ~sig)
                 /\ pc' = "a_locked"
                 /\ UNCHANGED <<ret, a_errno>>
              \/ /\ readable = {}                          \* case 0
                 /\ timeout >= 0
                 /\ lastWait' = "timeout"
                 /\ Lock
                 /\ sustained' = FALSE
                 /\ pc' = "a_loop"
                 /\ UNCHANGED <<ufd, ret, a_errno>>
              \/ /\ a_errno' \in {"EINTR", "EBADF"}        \* case -1
                 /\ lastWait' = "error"
                 /\ ret' = -1
                 /\ sustained' = FALSE
                 /\ pc' = "a_idle"
                 /\ UNCHANGED <<ufd, locked, lockErr>>
  /\ UNCHANGED <<b_die, cvars, hvars, pi_fd, littleEndian, timeout, sig, scan,
                 calls, accTried, pi_entry, pi_first, svcIdx, svc>>

\* lines 292-300: the readiness wait.  R is the set of listeners that are
\* readable when the wait ends; entry n+1 of ufd is the cancellation
\* descriptor.  With nothing readable among the entries waited on, the wait
\* ends only by its timeout or an error.
AcceptPoll ==
  /\ pc = "a_poll"
  /\ waits' = waits + 1
  /\ lastSig' = sig
  /\ \E R \in SUBSET (1..Len(pi_fd)) :
       LET n == Len(pi_fd)
           readable == {i \in 1..PollNfds(n) : IF i <= n THEN i \in R ELSE sig}
       IN  /\ lastNone' = (R = {})
           /\ \/ /\ readable # {}
                 /\ ufd' = [i \in 1..(n + 1) |-> i \in readable]
                 /\ Lock
                 /\ lastWait' = "ready"
                 /\ sustained' = (sustained /\ R = 1..n /\ ~sig)
                 /\ pc' = "a_locked"
                 /\ UNCHANGED <<ret, a_errno>>
              \/ /\ readable = {}                          \* case 0
                 /\ timeout >= 0
                 /\ lastWait' = "timeout"
                 /\ ret' = -1
                 /\ sustained' = FALSE
                 /\ pc' = "a_idle"
                 /\ UNCHANGED <<ufd, locked, lockErr, a_errno>>
              \/ /\ a_errno' \in {"EINTR", "EBADF"}        \* case -1
                 /\ lastWait' = "error"
                 /\ ret' = -1
                 /\ sustained' = FALSE
                 /\ pc' = "a_idle"
                 /\ UNCHANGED <<ufd, locked, lockErr>>
  /\ UNCHANGED <<b_die, cvars, hvars, pi_fd, littleEndian, timeout, sig, scan,
                 calls, accTried, pi_entry, pi_first, svcIdx, svc>>

\* lines 302-309: the cancellation descriptor's revents decide
AcceptLocked ==
  /\ pc = "a_locked"
  /\ IF ufd[Len(pi_fd) + 1]
       THEN /\ sig' = FALSE                                \* vlc_object_wait
            /\ a_errno' = "EINTR"
            /\ Unlock
            /\ ret' = -1
            /\ pc' = "a_idle"
            /\ UNCHANGED scan
       ELSE /\ scan' = 1
            /\ pc' = "a_scan"
            /\ UNCHANGED <<sig, a_errno, locked, lockErr, ret>>
  /\ UNCHANGED <<b_die, cvars, hvars, pi_fd, littleEndian, timeout, ufd, calls,
                 waits, accTried, lastNone, lastSig, lastWait, pi_entry, pi_first,
                 svcIdx, svc, sustained>>

\* (variant: the scan takes the last ready index first)
NextReadyLast(i) ==
  IF \E j \in i..Len(pi_fd) : ufd[j]
    THEN CHOOSE j \in i..Len(pi_fd) : ufd[j] /\ \A k \in (j + 1)..Len(pi_fd) : ~ufd[k]
    ELSE Len(pi_fd) + 1

\* lines 309-312: the first index from i on whose revents are set
NextReady(i) ==
  IF \E j \in i..Len(pi_fd) : ufd[j]
    THEN CHOOSE j \in i..Len(pi_fd) : ufd[j] /\ \A k \in i..(j - 1) : ~ufd[k]
    ELSE Len(pi_fd) + 1

\* lines 309-333: the scan up to and including the next accept()
AcceptScan ==
  /\ pc = "a_scan"
  /\ LET j == NextReady(scan)
         sfd == pi_fd[j]
     IN  IF j > Len(pi_fd)
           THEN /\ pc' = "a_loop"                          \* back to line 276
                /\ UNCHANGED <<pi_fd, scan, accTried, svcIdx, svc, sustained,
                               locked, lockErr, ret>>
           ELSE /\ accTried' = Append(accTried, sfd)
                /\ \/ /\ scan' = j + 1                     \* accept() == -1
                      /\ sustained' = FALSE
                      /\ UNCHANGED <<pc, pi_fd, svcIdx, svc, locked, lockErr,
                                     ret>>
                   \/ /\ pi_fd' = RotateListen(pi_fd, j - 1, sfd, littleEndian)
                      /\ svcIdx' = j
                      /\ svc' = IF sustained THEN Append(svc, sfd) ELSE svc
                      /\ Unlock
                      /\ ret' = NewConnection
                      /\ pc' = "a_idle"
                      /\ UNCHANGED <<scan, sustained>>
  /\ UNCHANGED <<b_die, cvars, hvars, littleEndian, timeout, sig, ufd, a_errno,
                 calls, waits, lastNone, lastSig, lastWait, pi_entry, pi_first>>

\* the execution context cancels the object while __net_Accept runs: the
\* object is marked dead and its cancellation descriptor becomes readable
KillAccept ==
  /\ pc \in {"a_poll", "a_scan"}
  /\ ~b_die
  /\ b_die' = TRUE
  /\ sig' = TRUE
  /\ UNCHANGED <<pc, ret, cvars, hvars, pi_fd, littleEndian, timeout, locked,
                 lockErr, ufd, scan, a_errno, calls, waits, accTried, lastNone,
                 lastSig, lastWait, pi_entry, pi_first, svcIdx, svc, sustained>>

NextConnect ==
  \/ ConnectEntry
  \/ Resolve
  \/ LoopSocket
  \/ LoopEnd
  \/ Connect
  \/ PollCheckDie
  \/ PollWait
  \/ SockOpt
  \/ AfterLoop
  \/ HandshakeEntry
  \/ NegOffer
  \/ NegMethod
  \/ NegAuth
  \/ NegStatus
  \/ H5Request
  \/ H5Header
  \/ H5Rest
  \/ HandshakeReturn
  \/ Kill

NextAccept ==
  \/ AcceptCall
  \/ AcceptLoopHead
  \/ AcceptPoll
  \/ AcceptLocked
  \/ AcceptScan
  \/ KillAccept

\* the steps of SocksHandshakeTCP, with both protocol versions
NextHandshake ==
  \/ HandshakeEntry
  \/ NegOffer
  \/ NegMethod
  \/ NegAuth
  \/ NegStatus
  \/ H5Request
  \/ H5Header
  \/ H5Rest
  \/ H4Resolve
  \/ H4Request
  \/ H4Reply

\* the steps of __net_Connect and of SocksHandshakeTCP with either version
NextResolve == NextConnect \/ H4Resolve \/ H4Request \/ H4Reply

Next == NextResolve \/ NextAccept

\* every call of either entry point
Spec == Init /\ [][Next]_vars

\* the calls of __net_Connect
SpecConnect == InitConnect /\ [][NextConnect]_vars

\* the calls of __net_Accept on one listen set
SpecAccept == InitAccept /\ [][NextAccept]_vars

\* the calls that resolve a name: __net_Connect, and SocksHandshakeTCP with
\* each version
SpecResolve == (InitConnect \/ InitHandshake) /\ [][NextResolve]_vars

\* the calls of SocksHandshakeTCP
SpecHandshake == InitHandshake /\ [][NextHandshake]_vars

(* ============================== the claims ============================== *)
Outcome(k) == attempts[k].outcome
Returned == pc = "c_ret"
SucceededAt(k) == k \in 1..Len(attempts) /\ Outcome(k) = "ok"
ConnectFailures == {"connfail", "pollerr", "timeout", "soerr"}

\* C1: when __net_Connect returns, the sockets it created and has not closed
\* are exactly the returned handle on success and none on a failure return.
C1_NoLeak ==
  Returned =>
    /\ ret = -1 \/ ret \in 3..(nCreated + 2)
    /\ open = (IF ret = -1 THEN {} ELSE {ret})

\* a failure return after the proxy handshake failed on the second socket made
C1_Witness ==
  /\ Returned
  /\ ret = -1
  /\ hs_ret = "VLC_EGENERIC"
  /\ nCreated = 2
  /\ nClosed = 2

\* C7: with a proxy configured, a socket type other than stream or
\* unspecified, or a protocol other than TCP or unspecified, makes the entry
\* step return an error with no resolver call and no socket made, and a
\* call that has returned makes none either.
C7_ProxyUnsupported ==
  [][/\ (/\ pc = "c_entry"
         /\ psz_socks # NULL
         /\ (type \notin {0, SOCK_STREAM} \/ proto \notin {0, IPPROTO_TCP}))
        => (/\ pc' = "c_ret"
            /\ ret' = -1
            /\ resolveCalls' = <<>>
            /\ nCreated' = 0)
     /\ Returned => (Returned' /\ resolveCalls' = resolveCalls
                                /\ nCreated' = nCreated)]_vars

\* a proxy call with a stream socket and the UDP protocol has returned
C7_Witness ==
  /\ Returned
  /\ psz_socks # NULL
  /\ type = SOCK_STREAM
  /\ proto = IPPROTO_UDP
  /\ ret = -1

\* C8: candidates are tried in list order, one at a time; the loop ends with
\* the socket of the first candidate whose socket creation and connect both
\* succeeded, nothing is tried after it, and with no success the call
\* returns an error.
C8_FirstSuccess ==
  /\ \A k \in 1..Len(attempts) : attempts[k].cand = k
  /\ Len(attempts) <= res
  /\ Cardinality(open) <= 1
  /\ \A k \in 1..Len(attempts) :
       Outcome(k) = "ok" =>
         /\ k = Len(attempts)
         /\ attempts[k].fd # -1
         /\ pc \in {"c_after", "c_ret"} \/ negCalls # <<>>
         /\ negCalls = <<>> => i_handle = attempts[k].fd
  /\ (i_handle # -1) => SucceededAt(Len(attempts))
  /\ (Returned /\ ~\E k \in 1..Len(attempts) : Outcome(k) = "ok") => ret = -1
  /\ (Returned /\ psz_socks = NULL /\ SucceededAt(Len(attempts)))
       => ret = attempts[Len(attempts)].fd

\* the second of three candidates connected after the first one failed, and
\* the call returned its socket
C8_Witness ==
  /\ Returned
  /\ res = 3
  /\ Len(attempts) = 2
  /\ Outcome(1) = "timeout"
  /\ Outcome(2) = "ok"
  /\ ret = attempts[2].fd

\* the case of C9: A fails socket creation, B fails connect, C connects and
\* the call returns C's handle
C9_Case ==
  /\ Returned
  /\ Len(attempts) = 3
  /\ Outcome(1) = "nosock"
  /\ Outcome(2) \in ConnectFailures
  /\ Outcome(3) = "ok"
  /\ ret = attempts[3].fd

\* C9 as stated: in that case exactly two intermediate sockets were closed.
C9_TwoClosed == C9_Case => nClosed = 2

\* C9 as amended: in that case exactly one intermediate socket was closed,
\* B's; A never had a socket, and only C's socket is left open.
C9_OneClosed ==
  C9_Case =>
    /\ nClosed = 1
    /\ nCreated = 2
    /\ attempts[1].fd = -1
    /\ open = {ret}

C9_Witness == C9_Case /\ Outcome(2) = "connfail" /\ psz_socks = NULL

\* C10 as stated: with a proxy and a connected socket the negotiation is
\* called exactly once, on that socket, with the configured version and
\* credentials and the original host and remapped port; without a proxy it
\* is never called.
C10_Negotiation ==
  /\ psz_socks = NULL => negCalls = <<>>
  /\ Len(negCalls) <= 1
  /\ (Returned /\ psz_socks # NULL /\ SucceededAt(Len(attempts)))
       => Len(negCalls) = 1
  /\ \A c \in 1..Len(negCalls) :
       /\ SucceededAt(Len(attempts))
       /\ negCalls[c].fd = attempts[Len(attempts)].fd
       /\ negCalls[c].version = socks_version
       /\ negCalls[c].user = psz_user
       /\ negCalls[c].pwd = psz_pwd
       /\ negCalls[c].host = TargetHost
       /\ negCalls[c].port = i_port
       /\ negCalls[c].port # 0

\* the element at index i moved to the tail, the ones after it shifted left
MoveToTail(a, i) == SubSeq(a, 1, i - 1) \o SubSeq(a, i + 1, Len(a)) \o <<a[i]>>

\* C2 as stated: after a call that accepted on the listener at index i, the
\* listen set is the set on entry with element i moved to the tail.
C2_MoveToTail ==
  (pc = "a_idle" /\ svcIdx # 0) => pi_fd = MoveToTail(pi_entry, svcIdx)

\* C3 as stated: under sustained readiness of all n listeners, call k
\* services the listener that was at index (k-1) mod n before the first call.
C3_RoundRobin ==
  sustained =>
    \A k \in 1..Len(svc) : svc[k] = pi_first[((k - 1) % Len(pi_first)) + 1]

\* C4 as stated: a wait that ends while the cancellation descriptor is
\* readable and no listener is, ends because of it: the call consumes the
\* signal and returns Interrupted without an accept().
C4_Interrupted ==
  (pc = "a_idle" /\ lastSig /\ lastNone /\ lastWait \in {"ready", "timeout"})
    => (ret = -1 /\ a_errno = "EINTR" /\ ~sig /\ accTried = <<>>)

\* C5 as stated: the method offer is [5][1][0] without a username and a
\* password, and [5][2][0][2] with either of them.
C5_MethodOffer ==
  wire # <<>> =>
    wire[1] = (IF HsArgs.user = NULL /\ HsArgs.pwd = NULL
                 THEN <<5, 1, 0>> ELSE <<5, 2, 0, 2>>)

\* C6 as stated: once the server has selected user/password and no
\* credentials were supplied, the handshake has failed, nothing was written
\* after the method offer and no credential was dereferenced.
C6_AuthUnsupported ==
  (/\ Len(reads) = 1
   /\ Len(buffer) = 2
   /\ buffer[2] = 2
   /\ HsArgs.user = NULL
   /\ HsArgs.pwd = NULL)
    => (hs_ret = "VLC_EGENERIC" /\ Len(wire) = 1 /\ pc # "crashed")

\* the reads made after the 5-byte header of the connect reply: the header
\* is the read that follows the last frame written
AfterHeader == SubSeq(reads, Len(wire) + 1, Len(reads))
HeaderRead == Len(buffer) = 5

\* C11: after a connect reply header with reply code 0, exactly one further
\* read is made, of 5 bytes for address type 1, of N+2 bytes for type 3 with
\* fifth header byte N, of 17 bytes for type 4; for any other type the
\* handshake fails and nothing further is read.
C11_BoundAddress ==
  (HeaderRead /\ buffer[2] = 0) =>
    LET atyp == buffer[4]
        want == IF atyp = 1 THEN 5 ELSE IF atyp = 3 THEN buffer[5] + 2 ELSE 17
    IN  IF atyp \in {1, 3, 4}
          THEN /\ AfterHeader = (IF pc = "h5_rest" THEN <<>> ELSE <<want>>)
               /\ hs_ret = "VLC_SUCCESS" => AfterHeader = <<want>>
          ELSE /\ AfterHeader = <<>>
               /\ hs_ret = "VLC_EGENERIC"
               /\ pc # "h5_rest"

\* a domain-name reply with a 3-byte name was read to its end
C11_Witness ==
  /\ HeaderRead
  /\ buffer[2] = 0
  /\ buffer[4] = 3
  /\ buffer[5] = 3
  /\ AfterHeader = <<5>>
  /\ hs_ret = "VLC_SUCCESS"

\* the running handshake is a SOCKS4 one, and how its resolution went
Socks4 == negCalls # <<>> /\ HsArgs.version = 4
TargetResolved == hostResolves # <<>> /\ hostResolves[1].ok
TargetUnresolved == hostResolves # <<>> /\ ~hostResolves[1].ok

\* C12: in the SOCKS4 path the target is resolved, once and as IPv4, before
\* anything is written or read; when it does not resolve the handshake has
\* failed with nothing written and nothing read; when it resolves, one
\* 9-byte request is written, the only read is one of 8 bytes, made after
\* that write, and a handshake that succeeded made both.
C12_Socks4Order ==
  Socks4 =>
    /\ Len(hostResolves) <= 1
    /\ \A k \in 1..Len(hostResolves) :
         hostResolves[k].family = AF_INET /\ hostResolves[k].host = TargetHost
    /\ (wire # <<>> \/ reads # <<>>) => TargetResolved
    /\ TargetUnresolved =>
         (wire = <<>> /\ reads = <<>> /\ hs_ret = "VLC_EGENERIC")
    /\ Len(wire) <= 1
    /\ \A k \in 1..Len(wire) : Len(wire[k]) = 9
    /\ reads \in {<<>>, <<8>>}
    /\ reads # <<>> => Len(wire) = 1
    /\ (TargetResolved /\ pc \in {"h4_reply", "hs_return"}) => Len(wire) = 1
    /\ hs_ret = "VLC_SUCCESS" => (Len(wire) = 1 /\ reads = <<8>>)

\* a SOCKS4 handshake that resolved the target, wrote its request, read the
\* answer and succeeded
C12_Witness ==
  /\ Socks4
  /\ TargetResolved
  /\ Len(wire) = 1
  /\ Len(wire[1]) = 9
  /\ reads = <<8>>
  /\ hs_ret = "VLC_SUCCESS"

\* the positions of the candidate loop, where the candidates are read
InLoop == pc \in {"c_loop", "c_connect", "c_poll", "c_wait", "c_sockopt"}

\* C13: a candidate list is released at most once, only if a resolution
\* delivered it, and exactly once by the time the call that obtained it has
\* returned (success, every candidate failed, abort during a connect wait,
\* SOCKS4 target resolution); no step reads a candidate of a released list.
C13_Released ==
  /\ [](/\ resFreed <= 1
        /\ res = 0 => resFreed = 0
        /\ (Returned /\ res > 0) => resFreed = 1
        /\ resFreed > 0 => ~InLoop
        /\ p_resFreed <= 1
        /\ ~TargetResolved => p_resFreed = 0
        /\ (TargetResolved /\ pc \in {"hs_return", "c_ret"}) => p_resFreed = 1)
  /\ [][/\ (ptr' # ptr \/ nCreated' # nCreated \/ pc = "c_connect")
             => (resFreed = 0 /\ resFreed' = 0)
        /\ (Socks4 /\ wire' # wire) => (p_res # <<>> /\ p_resFreed = 0)]_vars

\* the call was aborted during a connect wait and has released its list
C13_Witness ==
  /\ Returned
  /\ res > 0
  /\ attempts # <<>>
  /\ Outcome(Len(attempts)) = "aborted"
  /\ resFreed = 1

RECURSIVE SumSeq(_)
SumSeq(q) == IF q = <<>> THEN 0 ELSE Head(q) + SumSeq(Tail(q))

\* the configured timeout of the current candidate, a negative one taken as 0
ConfiguredT == IF ipv4_timeout < 0 THEN 0 ELSE ipv4_timeout

\* the candidate loop has just given up on a candidate whose socket never
\* became writable
TimedOut ==
  /\ pc = "c_loop"
  /\ polls # <<>>
  /\ attempts # <<>>
  /\ Outcome(Len(attempts)) = "timeout"

\* C14: a candidate whose connect is in progress and whose socket never
\* becomes writable is waited on floor(T/100)+1 times, floor(T/100) times
\* for 100 ms and then once for T mod 100 ms, T ms in all, whether or not
\* waits were interrupted; no candidate is waited on more often; then its
\* socket is closed and the next candidate is the current one.
C14_WaitBudget ==
  /\ (pc \in {"c_poll", "c_wait", "c_sockopt"} \/ (pc = "c_loop" /\ polls # <<>>))
       => Len(polls) <= (ConfiguredT \div 100) + 1
  /\ TimedOut =>
       LET q == ConfiguredT \div 100
           a == attempts[Len(attempts)]
       IN  /\ Len(polls) = q + 1
           /\ \A k \in 1..q : polls[k] = 100
           /\ polls[q + 1] = ConfiguredT % 100
           /\ SumSeq(polls) = ConfiguredT
           /\ a.fd # -1
           /\ a.fd \notin open
           /\ fd = -1
           /\ ptr = a.cand + 1

\* a timeout of 230 ms ran out in waits of 100, 100 and 30 ms
C14_Witness ==
  /\ TimedOut
  /\ ipv4_timeout = 230
  /\ polls = <<100, 100, 30>>

\* C15 as stated: once the object was asked to die while a connect is in
\* progress, no further candidate gets a socket, the negotiation is not
\* called, and the call returns an error with that candidate's socket closed.
C15_AbortsOnSignal ==
  [][b_die => /\ nCreated' = nCreated
              /\ negCalls' = negCalls
              /\ Returned' => (ret' = -1 /\ open' = {})]_vars

\* C15 as amended: the request is observed at the head of the next iteration
\* of the poll loop, before another wait: the step taken there closes the
\* candidate's socket and returns -1 with no further wait, socket or
\* negotiation; a wait that was going on when the request came either ends
\* the poll loop or leads to that head.
C15_ObservedAtLoopHead ==
  [][/\ (b_die /\ pc = "c_poll")
          => /\ pc' = "c_ret"
             /\ ret' = -1
             /\ open' = {}
             /\ fd \notin open'
             /\ polls' = polls
             /\ nCreated' = nCreated
             /\ negCalls' = <<>>
             /\ attempts'[Len(attempts')].outcome = "aborted"
     /\ (b_die /\ pc = "c_wait")
          => /\ Len(polls') = Len(polls) + 1
             /\ pc' \in {"c_poll", "c_sockopt", "c_loop"}
             /\ (pc' = "c_poll") => (d.quot > 0 /\ d'.quot = d.quot - 1)]_vars

\* the request came during the first wait, which ran out with budget left:
\* the call returned -1 after that one wait
C15_Witness ==
  /\ Returned
  /\ b_die
  /\ ret = -1
  /\ attempts # <<>>
  /\ Outcome(Len(attempts)) = "aborted"
  /\ Len(polls) = 1
  /\ negCalls = <<>>

\* the sockets among the first k of list a that the last wait found ready,
\* in list order
RECURSIVE ReadyPrefix(_, _)
ReadyPrefix(a, k) ==
  IF k = 0 THEN <<>>
  ELSE ReadyPrefix(a, k - 1) \o (IF ufd[k] THEN <<a[k]>> ELSE <<>>)

\* C16: in a scanning pass the sockets accept() was called on are the ready
\* ones in list order up to the scan position; a failed accept() leaves the
\* call running and the listen set alone; the call that returns a
\* connection called accept() on every ready socket before the serviced one,
\* on the serviced one last, and on none after it.
C16_ScanOrder ==
  /\ [](/\ pc = "a_scan" =>
             (pi_fd = pi_entry /\ accTried = ReadyPrefix(pi_fd, scan - 1))
        /\ (pc = "a_idle" /\ svcIdx # 0) =>
             /\ ufd[svcIdx]
             /\ accTried = ReadyPrefix(pi_entry, svcIdx)
             /\ accTried[Len(accTried)] = pi_entry[svcIdx]
             /\ ret = NewConnection)
  /\ [][(pc = "a_scan" /\ accTried' # accTried /\ svcIdx' = 0)
          => (pc' = "a_scan" /\ pi_fd' = pi_fd /\ ret' = ret /\ scan' > scan)]_vars

\* the first ready socket's accept() failed and the third socket, the next
\* ready one, was serviced
C16_Witness ==
  /\ pc = "a_idle"
  /\ svcIdx = 3
  /\ ufd[1]
  /\ ~ufd[2]
  /\ accTried = <<pi_entry[1], pi_entry[3]>>

\* C17: while a call runs, and after it returned an error, the listen set is
\* what it was on entry; a wait that timed out or failed is the call's last
\* step, returning -1 with no further wait; the listen set changes only in
\* the step that returns an accepted connection.
C17_ErrorFrame ==
  /\ [](/\ (calls > 0 /\ ~(pc = "a_idle" /\ svcIdx # 0)) => pi_fd = pi_entry
        /\ (pc = "a_idle" /\ calls > 0 /\ ret = -1) => svcIdx = 0
        /\ lastWait \in {"timeout", "error"} => (pc = "a_idle" /\ ret = -1))
  /\ [][/\ pi_fd' # pi_fd =>
             (pc' = "a_idle" /\ ret' = NewConnection /\ svcIdx' # 0)
        /\ (pc = "a_poll" /\ lastWait' \in {"timeout", "error"}) =>
             (pc' = "a_idle" /\ ret' = -1 /\ waits' = waits + 1
                /\ pi_fd' = pi_entry)]_vars

\* a call whose first wait found ready sockets that all failed accept() and
\* whose second wait timed out: it returned -1 with the listen set of entry
C17_Witness ==
  /\ pc = "a_idle"
  /\ ret = -1
  /\ waits = 2
  /\ lastWait = "timeout"
  /\ pi_fd = pi_entry
  /\ Len(pi_fd) > 1

\* the running handshake is a SOCKS5 one
Socks5 == negCalls # <<>> /\ HsArgs.version # 4
IsOffer(f) == f \in {<<5, 1, 0>>, <<5, 2, 0, 2>>}
IsRequest(f) == f = <<5, 1, 0, 3, Len(HsArgs.host)>> \o HsArgs.host \o SetWBE(HsArgs.port)

\* C18: the frames of a SOCKS5 handshake are a method offer, then at most
\* one user/password frame, then at most one connect request, which is the
\* last frame; a frame is written only when every earlier frame's reply was
\* read in full and accepted (a method of 0 or 2 before the second frame,
\* method 2 before a user/password frame, status 0 before a request that
\* follows it); reads and writes alternate until the request, whose reply is
\* read in two parts; once the handshake has failed nothing is written or
\* read and its result stays; the handshake returns with the socket open.
C18_Linear ==
  /\ [](Socks5 =>
          /\ Len(wire) <= 3
          /\ wire # <<>> => IsOffer(wire[1])
          /\ \A k \in 1..Len(wire) : IsRequest(wire[k]) => k = Len(wire) /\ k > 1
          /\ Len(wire) = 3 => IsRequest(wire[3])
          /\ Len(reads) >= Len(wire) - 1
          /\ Len(reads) <= Len(wire) + (IF wire # <<>> /\ IsRequest(wire[Len(wire)])
                                          THEN 1 ELSE 0)
          /\ hs_ret = "VLC_SUCCESS" =>
               (IsRequest(wire[Len(wire)]) /\ Len(reads) = Len(wire) + 1)
          /\ pc = "hs_return" => (hs_ret # "none" /\ HsArgs.fd \in open))
  /\ [][Socks5 =>
          /\ (wire' # wire /\ wire # <<>>) =>
               /\ hs_ret = "none"
               /\ Len(reads) = Len(wire)
               /\ Len(buffer) = 2
               /\ IF IsRequest(wire'[Len(wire')])
                    THEN buffer[2] = 0
                    ELSE Len(wire) = 1 /\ buffer[2] = 2
          /\ reads' # reads => (hs_ret = "none" /\ wire # <<>>)
          /\ hs_ret = "VLC_EGENERIC" =>
               (wire' = wire /\ reads' = reads /\ buffer' = buffer
                  /\ hs_ret' = hs_ret /\ pc' \in {"c_ret", "hs_return"})
          /\ pc \notin {"hs_return", "c_ret"} => open' = open]_vars

\* the server refused the credentials: two frames written, two replies read,
\* the handshake failed and the socket is still open
C18_Witness ==
  /\ Socks5
  /\ pc = "hs_return"
  /\ hs_ret = "VLC_EGENERIC"
  /\ Len(wire) = 2
  /\ reads = <<2, 2>>
  /\ buffer = <<5, 1>>
  /\ HsArgs.fd \in open

\* C19: in __net_Accept the lock is never taken while held nor released
\* while free; it is free during the readiness wait and whenever no call
\* runs (before the first call and after every return), and held where the
\* liveness is evaluated, where the revents of the cancellation descriptor
\* are looked at and the signal consumed, and during the scan.
C19_LockBalanced ==
  /\ ~lockErr
  /\ pc = "a_poll" => ~locked
  /\ pc = "a_idle" => ~locked
  /\ pc \in {"a_loop", "a_locked", "a_scan"} => locked

\* a call that found the object dead after a wait whose accept() calls all
\* failed has returned with the lock free
C19_Witness ==
  /\ pc = "a_idle"
  /\ ret = -1
  /\ b_die
  /\ waits = 1
  /\ lastWait = "ready"
  /\ scan > 1
  /\ ~locked

\* C20 as stated: a call with a finite timeout does not start a fresh
\* full-length wait after an earlier one.  Every wait is handed the whole of
\* timeout (line 292), so this says that a call with a finite timeout that
\* is about to wait has not waited before.
C20_NoFreshWait ==
  (pc = "a_poll" /\ timeout >= 0) => waits = 0
====
